---- MODULE Spec2Model ----
(***************************************************************************)
(* A model of agentstream/package-template (src/main.py).                  *)
(*                                                                         *)
(* The program is one request handler, get_current_time, registered with   *)
(* an FSFunction under the key "getCurrentTime", and the bootstrap         *)
(* coroutine main() that awaits the framework's start() and close().       *)
(* While start() is awaited the framework dispatches requests to the       *)
(* handler; every request is modelled as an invocation that walks the      *)
(* handler's four statements (lines 13..16) one at a time, so invocations  *)
(* running on different workers interleave at statement granularity.       *)
(*                                                                         *)
(* A Python dict is a set of <<key, value>> pairs. A payload value is      *)
(* [kind, text]; a configuration value is [kind, chars], where chars is    *)
(* the pattern as a sequence of one-character strings, which is what       *)
(* strftime scans.                                                         *)
(***************************************************************************)
EXTENDS Integers, Sequences, FiniteSets, TLC

\* Number of requests the framework has in flight at the same time.
MaxInv == 2
\* Number of seconds the wall clock advances during one run of the service.
MaxTicks == 1

Invocations == 1..MaxInv

VARIABLES
    platform,      \* the C library behind datetime.strftime in this build
    clock,         \* the wall clock
    ticks,         \* seconds elapsed since the process started
    mainPc,        \* main()'s position
    calls,         \* the framework lifecycle calls main() has awaited, in order
    log,           \* the lines printed so far
    startOutcome,  \* how await function.start() ended
    pending,       \* the exception in flight in main(), if any
    mainOutcome,   \* how main() ended
    runOutcome,    \* how the entry point ended
    registered,    \* process_funcs of the FSFunction
    pc,            \* each invocation's position in get_current_time
    data,          \* each invocation's payload
    context,       \* each invocation's FSContext (its configuration)
    user,          \* local `user`
    now,           \* local `now`
    time_format,   \* local `time_format`
    outcome,       \* what the invocation gave its caller
    clockReads,    \* how often the invocation read the clock
    configKeys     \* the keys the invocation passed to get_config, in order

handlerVars == <<pc, data, context, user, now, time_format, outcome,
                 clockReads, configKeys>>
mainVars == <<mainPc, calls, log, startOutcome, pending, mainOutcome,
              runOutcome, registered>>
vars == <<platform, clock, ticks, mainVars, handlerVars>>

----------------------------------------------------------------------------
(* Dicts *)

Has(d, k) == \E p \in d : p[1] = k

Get(d, k) == (CHOOSE p \in d : p[1] = k)[2]

JStr(s) == [kind |-> "str", text |-> s]

JInt(s) == [kind |-> "int", text |-> s]

None == [kind |-> "none", chars |-> <<>>]

Pattern(cs) == [kind |-> "str", chars |-> cs]

\* "%Y-%m-%d %H:%M:%S", the default of the test suite's MockFSContext.
DefaultFormat ==
    Pattern(<<"%", "Y", "-", "%", "m", "-", "%", "d", " ",
              "%", "H", ":", "%", "M", ":", "%", "S">>)

\* "%H:%M"
ShortFormat == Pattern(<<"%", "H", ":", "%", "M">>)

\* "%H%Q": %Q is no strftime directive.
UnsupportedFormat == Pattern(<<"%", "H", "%", "Q">>)

Request(d, ctx) == [data |-> d, context |-> ctx]

\* The requests the framework delivers: the two of the test suite
\* ({"test": "data"} under "%Y-%m-%d %H:%M:%S" and under "%H:%M"), a name
\* with and without another field, an empty name, a name that is not a
\* string, and a name under a format that is missing or unsupported.
Requests ==
    { Request({<<"test", JStr("data")>>}, {<<"format", DefaultFormat>>}),
      Request({<<"test", JStr("data")>>}, {<<"format", ShortFormat>>}),
      Request({<<"name", JStr("Alice")>>}, {<<"format", DefaultFormat>>}),
      Request({<<"name", JStr("Alice")>>, <<"test", JStr("data")>>},
              {<<"format", DefaultFormat>>}),
      Request({<<"name", JStr("")>>}, {<<"format", ShortFormat>>}),
      Request({<<"name", JInt("42")>>}, {<<"format", ShortFormat>>}),
      Request({<<"name", JStr("Alice")>>}, {}),
      Request({<<"name", JStr("Alice")>>}, {<<"format", UnsupportedFormat>>}) }

\* A get_config that falls back to a built-in format for a missing key.
get_config_WithDefault(ctx, key) ==
    IF Has(ctx, key) THEN Get(ctx, key) ELSE DefaultFormat

\* FSContext.get_config: the value, or None for a key that is not configured.
get_config(ctx, key) == IF Has(ctx, key) THEN Get(ctx, key) ELSE None

----------------------------------------------------------------------------
(* The clock and strftime *)

Time(y, mo, d, h, mi, s) ==
    [year |-> y, month |-> mo, day |-> d, hour |-> h, minute |-> mi, second |-> s]

NoTime == Time(0, 0, 0, 0, 0, 0)

\* The instant the service starts at: 2025-08-30 12:30:45, the clock value
\* of the test suite.
StartTime == Time(2025, 8, 30, 12, 30, 45)

\* One second later (the runs stay within one day).
NextSecond(t) ==
    IF t.second < 59 THEN [t EXCEPT !.second = t.second + 1]
    ELSE IF t.minute < 59 THEN [t EXCEPT !.second = 0, !.minute = t.minute + 1]
    ELSE [t EXCEPT !.second = 0, !.minute = 0, !.hour = (t.hour + 1) % 24]

RECURSIVE Pad(_, _)
\* n in decimal, zero-padded to w digits.
Pad(n, w) == IF w <= 1 THEN ToString(n)
             ELSE IF n < 10 THEN "0" \o Pad(n, w - 1)
             ELSE Pad(n \div 10, w - 1) \o ToString(n % 10)

Directives == {"Y", "m", "d", "H", "M", "S", "%"}

\* What one directive renders to.
Directive(t, c) ==
    CASE c = "Y" -> Pad(t.year, 4)
      [] c = "m" -> Pad(t.month, 2)
      [] c = "d" -> Pad(t.day, 2)
      [] c = "H" -> Pad(t.hour, 2)
      [] c = "M" -> Pad(t.minute, 2)
      [] c = "S" -> Pad(t.second, 2)
      [] c = "%" -> "%"
      [] OTHER   -> "%" \o c

\* The pattern holds a "%" that starts no directive: one followed by a
\* character outside Directives, or one at the very end.
RECURSIVE HasBadDirective(_, _)
HasBadDirective(cs, i) ==
    IF i > Len(cs) THEN FALSE
    ELSE IF cs[i] # "%" THEN HasBadDirective(cs, i + 1)
    ELSE IF i = Len(cs) THEN TRUE
    ELSE IF cs[i + 1] \notin Directives THEN TRUE
    ELSE HasBadDirective(cs, i + 2)

RECURSIVE Scan(_, _, _)
\* The scan of the pattern from position i: literal characters are copied,
\* a directive is replaced; what starts no directive is copied as it is.
Scan(t, cs, i) ==
    IF i > Len(cs) THEN ""
    ELSE IF cs[i] # "%" THEN cs[i] \o Scan(t, cs, i + 1)
    ELSE IF i = Len(cs) THEN "%"
    ELSE Directive(t, cs[i + 1]) \o Scan(t, cs, i + 2)

Platforms == {"glibc", "msvcrt"}

\* datetime.strftime(fmt) on platform p: a TypeError for an argument that is
\* not a str; for a str, the C library's strftime, which on msvcrt rejects a
\* pattern with an invalid directive (ValueError) and on glibc copies it.
strftime(p, t, fmt) ==
    IF fmt.kind # "str" THEN [raised |-> "TypeError", text |-> ""]
    ELSE IF p = "msvcrt" /\ HasBadDirective(fmt.chars, 1)
         THEN [raised |-> "ValueError", text |-> ""]
    ELSE [raised |-> "", text |-> Scan(t, fmt.chars, 1)]

----------------------------------------------------------------------------
(* get_current_time *)

\* A validation that coerces a number to a string (name: str in lax mode of
\* an older validator).
model_validate_Coerce(d) ==
    IF ~Has(d, "name") THEN [raised |-> "ValidationError", name |-> ""]
    ELSE [raised |-> "", name |-> Get(d, "name").text]

\* A validation that also requires the name to be non-empty.
model_validate_NonEmpty(d) ==
    IF ~Has(d, "name") THEN [raised |-> "ValidationError", name |-> ""]
    ELSE IF Get(d, "name").kind # "str" \/ Get(d, "name").text = ""
         THEN [raised |-> "ValidationError", name |-> ""]
    ELSE [raised |-> "", name |-> Get(d, "name").text]

\* User.model_validate(data): class User(BaseModel) with the one field
\* name: str. Other fields are ignored; a missing name or a name that is not
\* a string is a ValidationError; a string passes whatever its length.
model_validate(d) ==
    IF ~Has(d, "name") THEN [raised |-> "ValidationError", name |-> ""]
    ELSE IF Get(d, "name").kind # "str"
         THEN [raised |-> "ValidationError", name |-> ""]
    ELSE [raised |-> "", name |-> Get(d, "name").text]

NoUser == [raised |-> "", name |-> ""]

Pending == [status |-> "pending", error |-> "", value |-> {}]

Raised(e) == [status |-> "raised", error |-> e, value |-> {}]

Returned(d) == [status |-> "returned", error |-> "", value |-> d]

\* The greeting the test suite expects: without the name.
Greeting_NoName(name, formatted) ==
    "The current time is " \o formatted \o "."

\* The f-string of line 16.
Greeting(name, formatted) ==
    "Hi, " \o name \o ", the current time is " \o formatted \o "."

\* The return statement of line 16, with the locals as they are.
ReturnStatement(p, u, n, tf) ==
    LET r == strftime(p, n, tf) IN
    IF r.raised # "" THEN Raised(r.raised)
    ELSE Returned({<<"result", Greeting(u.name, r.text)>>})

\* get_current_time run from its first line to its last without
\* interruption, the clock showing t when line 14 reads it.
get_current_time(p, ctx, d, t) ==
    LET u == model_validate(d) IN
    IF u.raised # "" THEN Raised(u.raised)
    ELSE ReturnStatement(p, u, t, get_config(ctx, "format"))

----------------------------------------------------------------------------
(* The handler, one statement at a time *)

\* The service runs while main() awaits function.start().
Running == mainPc = "running" /\ "getCurrentTime" \in registered

\* The framework dispatches a request to a free worker: get_current_time is
\* entered with the request's payload and context. The free worker with the
\* lowest number takes it.
Invoke(i) ==
    /\ Running
    /\ pc[i] = "idle"
    /\ \A j \in Invocations : j < i => pc[j] # "idle"
    /\ \E r \in Requests :
          /\ data' = [data EXCEPT ![i] = r.data]
          /\ context' = [context EXCEPT ![i] = r.context]
    /\ pc' = [pc EXCEPT ![i] = "L13"]
    /\ UNCHANGED <<platform, clock, ticks, mainVars, user, now, time_format,
                   outcome, clockReads, configKeys>>

\* Line 13 with the clock read moved before the validation.
Line13_ClockFirst(i) ==
    /\ Running
    /\ pc[i] = "L13"
    /\ clockReads' = [clockReads EXCEPT ![i] = @ + 1]
    /\ LET u == model_validate(data[i]) IN
          IF u.raised # ""
          THEN /\ outcome' = [outcome EXCEPT ![i] = Raised(u.raised)]
               /\ pc' = [pc EXCEPT ![i] = "done"]
               /\ user' = user
          ELSE /\ user' = [user EXCEPT ![i] = u]
               /\ pc' = [pc EXCEPT ![i] = "L14"]
               /\ outcome' = outcome
    /\ UNCHANGED <<platform, clock, ticks, mainVars, data, context, now,
                   time_format, configKeys>>

\* user = User.model_validate(data); a ValidationError leaves the function.
Line13(i) ==
    /\ Running
    /\ pc[i] = "L13"
    /\ LET u == model_validate(data[i]) IN
          IF u.raised # ""
          THEN /\ outcome' = [outcome EXCEPT ![i] = Raised(u.raised)]
               /\ pc' = [pc EXCEPT ![i] = "done"]
               /\ user' = user
          ELSE /\ user' = [user EXCEPT ![i] = u]
               /\ pc' = [pc EXCEPT ![i] = "L14"]
               /\ outcome' = outcome
    /\ UNCHANGED <<platform, clock, ticks, mainVars, data, context, now,
                   time_format, clockReads, configKeys>>

\* now = datetime.datetime.now()
Line14(i) ==
    /\ Running
    /\ pc[i] = "L14"
    /\ now' = [now EXCEPT ![i] = clock]
    /\ clockReads' = [clockReads EXCEPT ![i] = @ + 1]
    /\ pc' = [pc EXCEPT ![i] = "L15"]
    /\ UNCHANGED <<platform, clock, ticks, mainVars, data, context, user,
                   time_format, outcome, configKeys>>

\* Line 15 reading the configuration from the context of the first worker:
\* a context kept in one place for all invocations.
Line15_SharedContext(i) ==
    /\ Running
    /\ pc[i] = "L15"
    /\ time_format' = [time_format EXCEPT ![i] = get_config(context[1], "format")]
    /\ configKeys' = [configKeys EXCEPT ![i] = Append(@, "format")]
    /\ pc' = [pc EXCEPT ![i] = "L16"]
    /\ UNCHANGED <<platform, clock, ticks, mainVars, data, context, user, now,
                   outcome, clockReads>>

\* time_format = context.get_config("format")
Line15(i) ==
    /\ Running
    /\ pc[i] = "L15"
    /\ time_format' = [time_format EXCEPT ![i] = get_config(context[i], "format")]
    /\ configKeys' = [configKeys EXCEPT ![i] = Append(@, "format")]
    /\ pc' = [pc EXCEPT ![i] = "L16"]
    /\ UNCHANGED <<platform, clock, ticks, mainVars, data, context, user, now,
                   outcome, clockReads>>

\* Line 16 rendering the clock as it is now instead of the local `now`.
Line16_RereadsClock(i) ==
    /\ Running
    /\ pc[i] = "L16"
    /\ outcome' = [outcome EXCEPT
                     ![i] = ReturnStatement(platform, user[i], clock, time_format[i])]
    /\ pc' = [pc EXCEPT ![i] = "done"]
    /\ UNCHANGED <<platform, clock, ticks, mainVars, data, context, user, now,
                   time_format, clockReads, configKeys>>

\* return {"result": f"Hi, {user.name}, the current time is
\* {now.strftime(time_format)}."}; an error of strftime leaves the function.
Line16(i) ==
    /\ Running
    /\ pc[i] = "L16"
    /\ outcome' = [outcome EXCEPT
                     ![i] = ReturnStatement(platform, user[i], now[i], time_format[i])]
    /\ pc' = [pc EXCEPT ![i] = "done"]
    /\ UNCHANGED <<platform, clock, ticks, mainVars, data, context, user, now,
                   time_format, clockReads, configKeys>>

\* The framework gives the invocation's outcome to its caller; the
\* invocation's locals are discarded and the worker is free again.
Reply(i) ==
    /\ Running
    /\ pc[i] = "done"
    /\ pc' = [pc EXCEPT ![i] = "idle"]
    /\ data' = [data EXCEPT ![i] = {}]
    /\ context' = [context EXCEPT ![i] = {}]
    /\ user' = [user EXCEPT ![i] = NoUser]
    /\ now' = [now EXCEPT ![i] = NoTime]
    /\ time_format' = [time_format EXCEPT ![i] = None]
    /\ outcome' = [outcome EXCEPT ![i] = Pending]
    /\ clockReads' = [clockReads EXCEPT ![i] = 0]
    /\ configKeys' = [configKeys EXCEPT ![i] = <<>>]
    /\ UNCHANGED <<platform, clock, ticks, mainVars>>

\* No request is in flight.
IdleHandler(p, d, c, u, n, tf, o, cr, ck) ==
    /\ p = [i \in Invocations |-> "idle"]
    /\ d = [i \in Invocations |-> {}]
    /\ c = [i \in Invocations |-> {}]
    /\ u = [i \in Invocations |-> NoUser]
    /\ n = [i \in Invocations |-> NoTime]
    /\ tf = [i \in Invocations |-> None]
    /\ o = [i \in Invocations |-> Pending]
    /\ cr = [i \in Invocations |-> 0]
    /\ ck = [i \in Invocations |-> <<>>]

\* The wall clock advances while the process runs.
Tick ==
    /\ ticks < MaxTicks
    /\ mainPc # "exit"
    /\ clock' = NextSecond(clock)
    /\ ticks' = ticks + 1
    /\ UNCHANGED <<platform, mainVars, handlerVars>>

----------------------------------------------------------------------------
(* main() and the entry point *)

NoException == [exc |-> "", origin |-> ""]

Exception(e, o) == [exc |-> e, origin |-> o]

\* How await function.start() may end: it returns, it raises an Exception,
\* the task is cancelled, or a KeyboardInterrupt is raised in it.
StartOutcomes == {"return", "Exception", "CancelledError", "KeyboardInterrupt"}

\* How await function.close() may end.
CloseOutcomes == {"return", "Exception"}

\* The except clause of line 30 that matches nothing.
Catches_Nothing(e) == FALSE

\* except Exception: CancelledError and KeyboardInterrupt derive from
\* BaseException only.
Catches(e) == e = "Exception"

\* A try statement whose finally clause runs only when the try block or a
\* handler was left normally.
AfterStart_NoFinally(out) ==
    IF out = "return" THEN "L33" ELSE IF Catches(out) THEN "L31" ELSE "exit"

\* Where the try statement of lines 27..33 goes when start() has ended: to the
\* finally clause when it returned, to the handler when the except clause
\* matches, and otherwise to the finally clause with the exception in flight.
AfterStart(out) ==
    IF out = "return" THEN "L33" ELSE IF Catches(out) THEN "L31" ELSE "L33"

\* function = FSFunction(process_funcs={"getCurrentTime": get_current_time})
Line21 ==
    /\ mainPc = "L21"
    /\ registered' = {"getCurrentTime"}
    /\ mainPc' = "L28"
    /\ UNCHANGED <<platform, clock, ticks, calls, log, startOutcome, pending,
                   mainOutcome, runOutcome, handlerVars>>

\* print("Starting agent function service...")
Line28 ==
    /\ mainPc = "L28"
    /\ log' = Append(log, "Starting agent function service...")
    /\ mainPc' = "L29"
    /\ UNCHANGED <<platform, clock, ticks, calls, startOutcome, pending,
                   mainOutcome, runOutcome, registered, handlerVars>>

\* await function.start(): the call; the service runs from here on.
Line29 ==
    /\ mainPc = "L29"
    /\ calls' = Append(calls, "start")
    /\ mainPc' = "running"
    /\ UNCHANGED <<platform, clock, ticks, log, startOutcome, pending,
                   mainOutcome, runOutcome, registered, handlerVars>>

\* await function.start() ends. The requests in flight end with the service.
StartEnds ==
    /\ mainPc = "running"
    /\ \E out \in StartOutcomes :
          /\ startOutcome' = out
          /\ pending' = IF out = "return" THEN NoException
                        ELSE Exception(out, "start")
          /\ mainPc' = AfterStart(out)
    /\ IdleHandler(pc', data', context', user', now', time_format', outcome',
                   clockReads', configKeys')
    /\ UNCHANGED <<platform, clock, ticks, calls, log, mainOutcome, runOutcome,
                   registered>>

\* except Exception as e: print(f"\nAn error occurred: {e}")
Line31 ==
    /\ mainPc = "L31"
    /\ log' = Append(log, "An error occurred: " \o pending.exc)
    /\ pending' = NoException
    /\ mainPc' = "L33"
    /\ UNCHANGED <<platform, clock, ticks, calls, startOutcome, mainOutcome,
                   runOutcome, registered, handlerVars>>

\* finally: await function.close(). main() ends with the exception close()
\* raised, else with the exception in flight, else normally.
Line33 ==
    /\ mainPc = "L33"
    /\ calls' = Append(calls, "close")
    /\ \E out \in CloseOutcomes :
          mainOutcome' = IF out # "return" THEN Exception(out, "close")
                         ELSE pending
    /\ pending' = NoException
    /\ mainPc' = "exit"
    /\ UNCHANGED <<platform, clock, ticks, log, startOutcome, runOutcome,
                   registered, handlerVars>>

\* What asyncio.run(main()) raises when main() ended with e: e itself, and
\* for a cancellation that a SIGINT caused, KeyboardInterrupt.
asyncio_run(e) ==
    IF e = "CancelledError" THEN {"CancelledError", "KeyboardInterrupt"} ELSE {e}

\* Lines 37..41: asyncio.run(main()) ends; except KeyboardInterrupt:
\* print("\nService stopped"). Any other exception leaves the program.
EntryPoint ==
    /\ mainPc = "exit"
    /\ runOutcome = "running"
    /\ \E e \in asyncio_run(mainOutcome.exc) :
          IF e = "KeyboardInterrupt"
          THEN /\ log' = Append(log, "Service stopped")
               /\ runOutcome' = "stopped"
          ELSE /\ log' = log
               /\ runOutcome' = IF e = "" THEN "returned" ELSE "uncaught " \o e
    /\ UNCHANGED <<platform, clock, ticks, mainPc, calls, startOutcome, pending,
                   mainOutcome, registered, handlerVars>>

----------------------------------------------------------------------------
(* The specification *)

Init ==
    /\ platform \in Platforms
    /\ clock = StartTime
    /\ ticks = 0
    /\ mainPc = "L21"
    /\ calls = <<>>
    /\ log = <<>>
    /\ startOutcome = ""
    /\ pending = NoException
    /\ mainOutcome = NoException
    /\ runOutcome = "running"
    /\ registered = {}
    /\ IdleHandler(pc, data, context, user, now, time_format, outcome,
                   clockReads, configKeys)

HandlerNext ==
    \E i \in Invocations :
        \/ Invoke(i)
        \/ Line13(i)
        \/ Line14(i)
        \/ Line15(i)
        \/ Line16(i)
        \/ Reply(i)

MainNext ==
    \/ Line21
    \/ Line28
    \/ Line29
    \/ StartEnds
    \/ Line31
    \/ Line33
    \/ EntryPoint

Next == HandlerNext \/ MainNext \/ Tick

Spec == Init /\ [][Next]_vars

----------------------------------------------------------------------------
(* Properties *)

HasName(d) == Has(d, "name") /\ Get(d, "name").kind = "str"

ValidFormat(v) == v.kind = "str" /\ ~HasBadDirective(v.chars, 1)

BadPattern(v) == v.kind = "str" /\ HasBadDirective(v.chars, 1)

\* The format the invocation's context is configured with, None when it has
\* none.
FormatOf(i) ==
    IF Has(context[i], "format") THEN Get(context[i], "format") ELSE None

Result(text) == Returned({<<"result", text>>})

\* C1: an invocation with a string name and a valid format returns a dict
\* with the single key "result" whose value is "Hi, {name}, the current time
\* is {formatted_time}.", the name as it is in the payload and the time the
\* clock value the invocation read, rendered with the pattern; for Alice,
\* "%Y-%m-%d %H:%M:%S" and 2025-08-30 12:30:45 that is the literal string.
C1_GreetingReturned ==
    \A i \in Invocations :
        (pc[i] = "done" /\ HasName(data[i]) /\ ValidFormat(FormatOf(i))) =>
            /\ outcome[i].status = "returned"
            /\ Cardinality(outcome[i].value) = 1
            /\ outcome[i].value =
                 {<<"result",
                    "Hi, " \o Get(data[i], "name").text \o ", the current time is "
                       \o Scan(now[i], FormatOf(i).chars, 1) \o ".">>}
            /\ ( /\ Get(data[i], "name").text = "Alice"
                 /\ FormatOf(i) = DefaultFormat
                 /\ now[i] = Time(2025, 8, 30, 12, 30, 45)
                 => outcome[i] =
                      Result("Hi, Alice, the current time is 2025-08-30 12:30:45.") )

C1_Witness ==
    \E i \in Invocations :
        /\ pc[i] = "done"
        /\ outcome[i] = Result("Hi, Alice, the current time is 2025-08-30 12:30:45.")

C3_AsStated ==
    \A i \in Invocations :
        ( /\ pc[i] = "done" /\ HasName(data[i])
          /\ (FormatOf(i) = None \/ BadPattern(FormatOf(i))) ) =>
            /\ outcome[i].status = "raised"
            /\ outcome[i].value = {}

\* C3 as amended: with a valid name, a missing format makes the invocation
\* fail at line 16, after the clock and the configuration were read, with
\* the TypeError of strftime and no output payload; an unsupported pattern
\* fails (ValueError) only on a platform whose strftime rejects it, and
\* where the platform accepts it the invocation returns the greeting with
\* what that strftime renders.
C3_Amended ==
    \A i \in Invocations :
        (pc[i] = "done" /\ HasName(data[i])) =>
            /\ FormatOf(i) = None =>
                  /\ outcome[i] = Raised("TypeError")
                  /\ clockReads[i] = 1
                  /\ configKeys[i] = <<"format">>
            /\ (BadPattern(FormatOf(i)) /\ platform = "msvcrt") =>
                  /\ outcome[i] = Raised("ValueError")
                  /\ clockReads[i] = 1
                  /\ configKeys[i] = <<"format">>
            /\ (BadPattern(FormatOf(i)) /\ platform = "glibc") =>
                  outcome[i] =
                     Result("Hi, " \o Get(data[i], "name").text
                               \o ", the current time is "
                               \o Scan(now[i], FormatOf(i).chars, 1) \o ".")

C3_Witness ==
    \E i, j \in Invocations :
        /\ pc[i] = "done" /\ HasName(data[i]) /\ FormatOf(i) = None
        /\ outcome[i] = Raised("TypeError")
        /\ pc[j] = "done" /\ BadPattern(FormatOf(j))
        /\ outcome[j] = Result("Hi, Alice, the current time is 12%Q.")

\* C4: an invocation whose payload carries no name returns {"result": "The
\* current time is {formatted_time}."}, the time being the clock value
\* rendered with the context's pattern.
C4_TestExpectation ==
    \A i \in Invocations :
        (pc[i] = "done" /\ ~Has(data[i], "name") /\ ValidFormat(FormatOf(i))) =>
            \E t \in {clock, now[i], StartTime} :
                outcome[i] =
                    Result("The current time is "
                              \o Scan(t, FormatOf(i).chars, 1) \o ".")

\* main() has caught and logged the exception e that start() raised, goes
\* on to await close() and ends without e; start() was awaited once.
CaughtLoggedClosed(e) ==
    /\ mainPc \in {"L31", "L33", "exit"}
    /\ mainPc \in {"L33", "exit"} =>
          /\ log = <<"Starting agent function service...",
                     "An error occurred: " \o e>>
                   \o (IF runOutcome = "stopped" THEN <<"Service stopped">>
                       ELSE <<>>)
          /\ pending = NoException
    /\ mainPc = "exit" =>
          /\ calls = <<"start", "close">>
          /\ mainOutcome.origin # "start"
    /\ mainPc # "exit" => ENABLED (Line31 \/ Line33)
    /\ Len(SelectSeq(calls, LAMBDA c : c = "start")) = 1

\* C5 as stated: whatever exception ends await function.start(), main()
\* catches and logs it, then awaits function.close() and ends; the exception
\* does not leave main() and start() is not awaited again.
C5_AsStated ==
    startOutcome \in StartOutcomes \ {"return"} =>
        CaughtLoggedClosed(startOutcome)

\* C5 as amended: that holds of an exception that is an instance of
\* Exception. A CancelledError or a KeyboardInterrupt is neither caught nor
\* logged: close() is awaited with it in flight, and main() ends with it
\* unless close() raises.
C5_LogAndTerminate ==
    /\ startOutcome = "Exception" => CaughtLoggedClosed(startOutcome)
    /\ startOutcome \in {"CancelledError", "KeyboardInterrupt"} =>
          /\ mainPc \in {"L33", "exit"}
          /\ \A k \in 1..Len(log) : log[k] # "An error occurred: " \o startOutcome
          /\ Len(SelectSeq(calls, LAMBDA c : c = "start")) = 1
          /\ mainPc = "exit" =>
                /\ calls = <<"start", "close">>
                /\ mainOutcome \in {Exception(startOutcome, "start"),
                                    Exception("Exception", "close")}

C5_Witness ==
    /\ startOutcome = "Exception"
    /\ mainPc = "exit"
    /\ mainOutcome = NoException
    /\ runOutcome = "returned"

\* C6: two invocations with the same payload and the same format
\* configuration that read the same clock value give the same outcome.
C6_SameInputsSameOutcome ==
    \A i, j \in Invocations :
        ( /\ pc[i] = "done" /\ pc[j] = "done"
          /\ data[i] = data[j]
          /\ FormatOf(i) = FormatOf(j)
          /\ now[i] = now[j] ) => outcome[i] = outcome[j]

C6_Witness ==
    \E i, j \in Invocations :
        /\ i # j
        /\ pc[i] = "done" /\ pc[j] = "done"
        /\ data[i] = data[j] /\ FormatOf(i) = FormatOf(j) /\ now[i] = now[j]
        /\ outcome[i].status = "returned"
        /\ clock # now[i]

\* C7: whatever the interleaving, every local of an invocation is the value
\* its own payload and its own context give, and its outcome is the one
\* get_current_time gives when run alone on its payload, its context and the
\* clock value it read.
C7_Independent ==
    \A i \in Invocations :
        /\ pc[i] \in {"L14", "L15", "L16"} => user[i] = model_validate(data[i])
        /\ pc[i] = "L16" => time_format[i] = get_config(context[i], "format")
        /\ pc[i] = "done" =>
              outcome[i] = get_current_time(platform, context[i], data[i], now[i])

C7_Witness ==
    \E i, j \in Invocations :
        /\ i # j
        /\ pc[i] = "L16" /\ pc[j] = "done"
        /\ now[i] = StartTime /\ now[j] = NextSecond(StartTime)
        /\ context[i] # context[j]
        /\ outcome[j].status = "returned"

NameOnly(d) == {p \in d : p[1] = "name"}

\* C8: an empty name passes the validation and gives "Hi, , the current
\* time is {formatted_time}."; the outcome is the one the payload's name
\* field alone gives.
C8_TypeCheckOnly ==
    \A i \in Invocations :
        pc[i] = "done" =>
            /\ ( /\ Has(data[i], "name")
                 /\ Get(data[i], "name") = JStr("")
                 /\ ValidFormat(FormatOf(i)) ) =>
                   outcome[i] =
                      Result("Hi, , the current time is "
                                \o Scan(now[i], FormatOf(i).chars, 1) \o ".")
            /\ outcome[i] =
                 get_current_time(platform, context[i], NameOnly(data[i]), now[i])

C8_Witness ==
    \E i, j \in Invocations :
        /\ pc[i] = "done"
        /\ outcome[i] = Result("Hi, , the current time is 12:30.")
        /\ pc[j] = "done"
        /\ Has(data[j], "test")
        /\ outcome[j].status = "returned"

\* C9: an invocation validates, then reads the clock, then reads the
\* configuration, then renders: a failed validation leaves the clock unread
\* and get_config uncalled; otherwise the clock is read once and get_config
\* is called once, with "format".
C9_StepOrder ==
    \A i \in Invocations :
        /\ clockReads[i] \in {0, 1}
        /\ configKeys[i] \in {<<>>, <<"format">>}
        /\ clockReads[i] = 1 => model_validate(data[i]).raised = ""
        /\ configKeys[i] # <<>> => clockReads[i] = 1
        /\ (pc[i] = "done" /\ model_validate(data[i]).raised # "") =>
              /\ clockReads[i] = 0
              /\ configKeys[i] = <<>>
              /\ now[i] = NoTime
        /\ (pc[i] = "done" /\ model_validate(data[i]).raised = "") =>
              /\ clockReads[i] = 1
              /\ configKeys[i] = <<"format">>

C9_Witness ==
    \E i, j \in Invocations :
        /\ pc[i] = "done" /\ outcome[i] = Raised("ValidationError")
        /\ clockReads[i] = 0
        /\ pc[j] = "done" /\ outcome[j].status = "returned"
        /\ clockReads[j] = 1 /\ configKeys[j] = <<"format">>

Interrupts == {"CancelledError", "KeyboardInterrupt"}

\* C10: close() is awaited once on every path of main(), and after start():
\* when start() returned, raised an Exception or was interrupted. An
\* interruption leaves main() only after close() was awaited, and a
\* KeyboardInterrupt that leaves main() is caught by the entry point, which
\* prints "Service stopped".
C10_CloseOnEveryPath ==
    /\ calls \in {<<>>, <<"start">>, <<"start", "close">>}
    /\ mainPc = "exit" =>
          /\ startOutcome \in StartOutcomes
          /\ calls = <<"start", "close">>
    /\ (mainPc = "exit" /\ startOutcome \in Interrupts
           /\ mainOutcome.origin # "close") =>
          mainOutcome = Exception(startOutcome, "start")
    /\ (mainPc # "exit" /\ startOutcome \in Interrupts) =>
          /\ mainPc = "L33"
          /\ pending = Exception(startOutcome, "start")
    /\ (runOutcome # "running" /\ mainOutcome.exc = "KeyboardInterrupt") =>
          /\ runOutcome = "stopped"
          /\ log = <<"Starting agent function service...", "Service stopped">>

C10_Witness ==
    /\ startOutcome = "KeyboardInterrupt"
    /\ calls = <<"start", "close">>
    /\ mainOutcome = Exception("KeyboardInterrupt", "start")
    /\ runOutcome = "stopped"

====
